---- MODULE Spec2Model ----
(***************************************************************************)
(* A model of the qio effect runtime: the bounded Queue (items Q, takers   *)
(* T, one Await per suspended take) and the Managed resource bracket       *)
(* (acquire / use / release under fiber abort).                            *)
(***************************************************************************)
EXTENDS Integers, Sequences, FiniteSets, TLC

\* ------------------------------------------------------------------ bounds
MaxOffers == 3
MaxTakes == 3
MaxVal == 2
MaxCap == 2
MaxAborts == 2
MaxRuns == 3
MaxDelay == 2
MaxIos == 4
MaxN == 2
MaxCalls == 3
MaxCancels == 2
MaxForks == 3

\* `undefined`: what PureMutableList.shift yields on an empty list, and the
\* content of an Await cell / a take's result that has not been set.
Undefined == 0

Values == 1..MaxVal
TakeIds == 1..MaxTakes

VARIABLES
  capacity,   \* Queue.capacity
  Q,          \* Queue.Q : the stored items, oldest first
  T,          \* Queue.T : the Awaits of the suspended takes, oldest first
  cell,       \* the Await created by take i: its value, or Undefined
  takeSt,     \* take i: "new" (not issued), "suspended" (in await.get), "done"
  takeRes,    \* the value take i returned
  takeAt,     \* history: the number of offers made when take i was issued
  takeWaited, \* history: take i found Q empty and suspended
  offered,    \* history: the values passed to offer, in order
  mKind,      \* the Managed under use: "make", "map" (m.map(f)) or "chain" (m.chain(f))
  relFails,   \* relFails[r]: release of resource r fails
  upc,        \* position of the fiber running use: "acquire", "use", "release", "complete", "done"
  acquireLog, \* the resources acquired, in order (1 = outer, 2 = inner)
  releaseLog, \* the resources released, in order
  kArg,       \* the value handed to k
  kExit,      \* the exit of k(a)
  curExit,    \* the captured exit, as reproduced after the releases so far
  useExit,    \* the exit of the use effect
  fStatus,    \* the fiber running use: "Pending", "Completed" or "Aborted"
  aborts,     \* the number of Fiber.abort calls made
  abortedAt,  \* history: upc when abort hit the pending fiber, or "none"
  tnN,        \* the n of the takeN(n) under evaluation
  tnList,     \* takeN's immutable List of the values taken so far, head first
  tnRes,      \* the array takeN(n) resolved with
  tnSt,       \* the fiber running takeN(n): "new", "waiting" (in a take) or "done"
  awFlag,     \* the Await of eff.once: set was called
  awResult,   \* the Await of eff.once: the exit stored, or NoExit
  runSt,      \* run i of the memoized effect: "new", "evaluating", "waiting", "done"
  runExit,    \* the exit run i completed with
  runWaited,  \* history: run i suspended in AWT.get
  evalStarted,\* the number of evaluations of eff started
  evalExits,  \* history: the exits of the evaluations of eff, in order
  rMode,      \* the combinator built on raceWith: "race" or "zip" (zipWithPar)
  rDelay,     \* rDelay[c]: the delay after which child effect c exits (0: synchronously)
  rOut,       \* rOut[c]: the exit of child effect c
  now,        \* the scheduler's clock
  asapQ,      \* the scheduler's asap queue: the fibers to run, first first
  pc,         \* pc[f]: position of fiber f (P: raceWith, L/R: children, W1/W2: resume1/resume2)
  fst,        \* fst[c]: status of child fiber c: "Pending", "Completed", "Aborted"
  fexit,      \* fexit[c]: the exit child fiber c completed with
  timerAt,    \* timerAt[c]: when the delay handle of child c fires, or NoTimer
  waiters,    \* waiters[c]: the fibers suspended in c.await / c.join
  doneFlag,   \* the Await `done`: the side whose set succeeded, or "none"
  doneRes,    \* the Await `done`: the exit of the effect it was set to
  setCalls,   \* setCalls[c]: done.set calls made by the watcher of side c
  cbRun,      \* cbRun[c]: the effect built by the callback of side c was executed
  cCalls,     \* the argument pairs the combining function c was called with
  raceExit,   \* the exit of the combinator
  timerCancels, \* timerCancels[c]: how often the delay handle of child c was cancelled
  exitAt,     \* exitAt[c]: the clock when child c completed, -1 before
  pAbort,     \* the fiber of raceWith was aborted: "no", "bothRunning" or "other"
  pnN,        \* parN's N
  pnIos,      \* the exits of the listed effects, in list order
  est,        \* est[i]: "idle", "running", "ok", "failed" or "aborted"
  chunkAt,    \* parN: how many effects of the list the finished chunks cover
  pnSt,       \* the combined effect: "built", "running", "done" or "failed"
  parOut,     \* the last QIO.par call that resolved: its offset and its array
  pnRes,      \* the array the combined effect has gathered / resolved with
  pOrder,     \* history: the effects in the order they exited
  cStatus,    \* Computation.fork: `status`
  tickSt,     \* the sh.asap task of the fork: "scheduled", "ran" or "cancelled"
  cancellations, \* the `cancellations` array: the handles pushed, in order
  handleCalls,   \* handleCalls[h]: how often cancellation handle h was invoked
  calls,      \* history: the downstream rej / res invocations, in order
  cancelCalls, \* how often the returned cancel function was called
  thunk,      \* Try: the thunk: [kind |-> "count" | "const" | "throw", val]
  counter,    \* Try: the variable i a counting thunk increments
  tTick,      \* tTick[f]: the asap task of fork f: "scheduled", "ran", "cancelled"
  thunkRuns,  \* thunkRuns[f]: how often fork f executed the thunk
  thunkRes,   \* thunkRes[f]: what the thunk did in fork f: Right(a) returned, Left(e) thrown
  tExits,     \* tExits[f]: the exits fork f delivered downstream, in order
  escaped,    \* an exception of the thunk reached the scheduler
  prog,       \* provide: the shape of the effect the parent fiber evaluates
  iCode,      \* iCode[f]: the instructions and frames fiber f has left, next first
  iEnv,       \* iEnv[f]: the current environment of fiber f
  iEnvStack,  \* iEnvStack[f]: the environments fiber f restores, innermost first
  iSeen,      \* iSeen[f]: history: <<expected, observed>> of each Access of fiber f
  iSt         \* iSt[f]: "unborn", "running", "ok" or "failed"

qvars == <<capacity, Q, T, cell, takeSt, takeRes, takeAt, takeWaited, offered>>

mvars == <<mKind, relFails, upc, acquireLog, releaseLog, kArg, kExit, curExit,
           useExit, fStatus, aborts, abortedAt>>

tnvars == <<tnN, tnList, tnRes, tnSt>>

ovars == <<awFlag, awResult, runSt, runExit, runWaited, evalStarted, evalExits>>

rvars == <<rMode, rDelay, rOut, now, asapQ, pc, fst, fexit, timerAt, waiters,
           doneFlag, doneRes, setCalls, cbRun, cCalls, raceExit,
           timerCancels, exitAt, pAbort>>

pvars == <<pnN, pnIos, est, chunkAt, pnSt, parOut, pnRes, pOrder>>

cvars == <<cStatus, tickSt, cancellations, handleCalls, calls, cancelCalls>>

tvars == <<thunk, counter, tTick, thunkRuns, thunkRes, tExits, escaped>>

evars == <<prog, iCode, iEnv, iEnvStack, iSeen, iSt>>

vars == <<qvars, mvars, tnvars, ovars, rvars, pvars, cvars, tvars, evars>>

\* what the steps of one component leave alone
notQueue == <<mvars, tnvars, ovars, rvars, pvars, cvars, tvars, evars>>
notManaged == <<qvars, tnvars, ovars, rvars, pvars, cvars, tvars, evars>>
notTakeN == <<mvars, ovars, rvars, pvars, cvars, tvars, evars>>
notOnce == <<qvars, mvars, tnvars, rvars, pvars, cvars, tvars, evars>>
notRace == <<qvars, mvars, tnvars, ovars, pvars, cvars, tvars, evars>>
notPar == <<qvars, mvars, tnvars, ovars, rvars, cvars, tvars, evars>>
notComputation == <<qvars, mvars, tnvars, ovars, rvars, pvars, tvars, evars>>
notTry == <<qvars, mvars, tnvars, ovars, rvars, pvars, cvars, evars>>
notEnv == <<qvars, mvars, tnvars, ovars, rvars, pvars, cvars, tvars>>

\* ------------------------------------------------------------------- Await
\* Await.set(QIO.of(v)): the first set stores the value, a later one is a no-op.
AwaitSet(cells, id, v) ==
  IF cells[id] = Undefined THEN [cells EXCEPT ![id] = v] ELSE cells

\* every Await of `ids` set to v (FIO.seq over the list of set effects).
RECURSIVE AwaitSetAll(_, _, _)
AwaitSetAll(cells, ids, v) ==
  IF ids = <<>> THEN cells
  ELSE AwaitSetAll(AwaitSet(cells, Head(ids), v), Tail(ids), v)

\* ----------------------------------------------------------------- Managed
Resources == 1..2

\* an exit (Either) and the absent exit
Right(v) == [tag |-> "Right", val |-> v]
Left(e) == [tag |-> "Left", val |-> e]
NoExit == [tag |-> "None", val |-> 0]

\* the error release(r) fails with (FAILURE_ON_CLOSURE, one per resource), and
\* the exit of a failing k (QIO.reject('Failure')), as numbers
RelErr(r) == 200 + r
KErr == [tag |-> "Left", val |-> 100]

\* the value acquire yields for resource r, and the f of m.map(f): the
\* regression suite maps with () => 0
AcquireValue(r) == r
mapFn(a) == 0

\* m.chain(f) holds two resources, make and map one
Depth(kind) == IF kind = "chain" THEN 2 ELSE 1

\* the elements of a sequence
Range(seq) == {seq[i] : i \in 1..Len(seq)}

RECURSIVE Reverse(_)
Reverse(seq) == IF seq = <<>> THEN <<>> ELSE Append(Reverse(Tail(seq)), Head(seq))

\* release(a) runs at most once per resource, whoever asks for it: the use
\* path or the abort observer.
ReleaseTwice(log, r) == Append(log, r)
ReleaseOnce(log, r) == IF r \in Range(log) THEN log ELSE Append(log, r)

\* the abort observer releases what was acquired, the inner resource first.
RECURSIVE ReleaseAll(_, _)
ReleaseAll(log, rs) ==
  IF rs = <<>> THEN log ELSE ReleaseAll(ReleaseOnce(log, Head(rs)), Tail(rs))

AbortReleaseNothing(log, acquired) == log
AbortRelease(log, acquired) == ReleaseAll(log, Reverse(acquired))

\* the resource the use path releases next: the innermost not yet released.
NextReleaseOuterFirst(acquired, nReleased) == acquired[nReleased + 1]
NextRelease(acquired, nReleased) == acquired[Len(acquired) - nReleased]

\* the exit reproduced after release(r): the captured failure is kept; a
\* release failure after a successful use becomes the failure.
ReproduceDropCause(exit, failed, r) ==
  IF failed THEN Left(RelErr(r)) ELSE Right(exit.val)
ReproduceIgnoreRelease(exit, failed, r) == exit
Reproduce(exit, failed, r) ==
  IF exit.tag = "Left" THEN exit
  ELSE IF failed THEN Left(RelErr(r)) ELSE exit

\* the use-path step that follows one more release
AfterRelease(acquired, log) ==
  IF Range(acquired) \subseteq Range(log) THEN "complete" ELSE "release"

ManagedIdle ==
  /\ mKind = "make"
  /\ relFails = [r \in Resources |-> FALSE]
  /\ upc = "done"
  /\ acquireLog = <<>>
  /\ releaseLog = <<>>
  /\ kArg = 0
  /\ kExit = NoExit
  /\ curExit = NoExit
  /\ useExit = NoExit
  /\ fStatus = "Completed"
  /\ aborts = MaxAborts
  /\ abortedAt = "none"

\* the fiber of managed.use(k) was forked and has not run yet
ManagedVarsInit ==
  /\ mKind \in {"make", "map", "chain"}
  /\ relFails \in [Resources -> BOOLEAN]
  /\ upc = "acquire"
  /\ acquireLog = <<>>
  /\ releaseLog = <<>>
  /\ kArg = 0
  /\ kExit = NoExit
  /\ curExit = NoExit
  /\ useExit = NoExit
  /\ fStatus = "Pending"
  /\ aborts = 0
  /\ abortedAt = "none"

\* acquire completes for the next resource; after the last one k is started
\* with the acquired value (mapped by f under m.map(f)).
Acquire ==
  /\ fStatus = "Pending"
  /\ upc = "acquire"
  /\ LET r == Len(acquireLog) + 1
         a == AcquireValue(r)
     IN /\ acquireLog' = Append(acquireLog, r)
        /\ IF r = Depth(mKind)
             THEN /\ upc' = "use"
                  /\ kArg' = IF mKind = "map" THEN mapFn(a) ELSE a
             ELSE UNCHANGED <<upc, kArg>>
  /\ UNCHANGED <<mKind, relFails, releaseLog, kExit, curExit, useExit, fStatus,
                 aborts, abortedAt>>
  /\ UNCHANGED notManaged

\* k(a) exits, by success or by failure; its exit is captured.
KExits(e) ==
  /\ fStatus = "Pending"
  /\ upc = "use"
  /\ kExit' = e
  /\ curExit' = e
  /\ upc' = "release"
  /\ UNCHANGED <<mKind, relFails, acquireLog, releaseLog, kArg, useExit, fStatus,
                 aborts, abortedAt>>
  /\ UNCHANGED notManaged

\* the use path releases the next resource and reproduces the exit at its level.
Release ==
  /\ fStatus = "Pending"
  /\ upc = "release"
  /\ LET r == NextRelease(acquireLog, Len(releaseLog))
     IN /\ releaseLog' = ReleaseOnce(releaseLog, r)
        /\ curExit' = Reproduce(curExit, relFails[r], r)
  /\ upc' = AfterRelease(acquireLog, releaseLog')
  /\ UNCHANGED <<mKind, relFails, acquireLog, kArg, kExit, useExit, fStatus,
                 aborts, abortedAt>>
  /\ UNCHANGED notManaged

\* use completes with the reproduced exit.
Complete ==
  /\ fStatus = "Pending"
  /\ upc = "complete"
  /\ useExit' = curExit
  /\ fStatus' = "Completed"
  /\ upc' = "done"
  /\ UNCHANGED <<mKind, relFails, acquireLog, releaseLog, kArg, kExit, curExit,
                 aborts, abortedAt>>
  /\ UNCHANGED notManaged

\* Fiber.abort on the fiber running use: a no-op on a terminal fiber; on a
\* pending one the fiber is Aborted and the abort observer releases.
Abort ==
  /\ aborts < MaxAborts
  /\ aborts' = aborts + 1
  /\ IF fStatus = "Pending"
       THEN /\ fStatus' = "Aborted"
            /\ releaseLog' = AbortRelease(releaseLog, acquireLog)
            /\ abortedAt' = upc
       ELSE UNCHANGED <<fStatus, releaseLog, abortedAt>>
  /\ UNCHANGED <<mKind, relFails, upc, acquireLog, kArg, kExit, curExit, useExit>>
  /\ UNCHANGED notManaged

ManagedNext ==
  \/ Acquire
  \/ \E e \in {Right(kArg), KErr} : KExits(e)
  \/ Release
  \/ Complete
  \/ Abort

\* a Managed under use, no queue traffic
QueueIdle ==
  /\ capacity = 1
  /\ Q = <<>>
  /\ T = <<>>
  /\ cell = [i \in TakeIds |-> Undefined]
  /\ takeSt = [i \in TakeIds |-> "done"]
  /\ takeRes = [i \in TakeIds |-> Undefined]
  /\ takeAt = [i \in TakeIds |-> 0]
  /\ takeWaited = [i \in TakeIds |-> FALSE]
  /\ offered = <<>>


\* ---------------------------------------------------------- Managed claims
\* the number of times resource r was released
ReleaseCount(r) == Cardinality({i \in 1..Len(releaseLog) : releaseLog[i] = r})

\* the number of times resource r was acquired
AcquireCount(r) == Cardinality({i \in 1..Len(acquireLog) : acquireLog[i] = r})

\* the fiber running use has ended and nothing is left to run
Quiescent == fStatus # "Pending"

\* C1: whichever way use exits (k succeeds, k fails, the fiber is aborted),
\* once the system is quiescent as many releases as acquires have completed.
C1_ReleasesEqualAcquires ==
  Quiescent => Len(releaseLog) = Len(acquireLog)

\* C1 witness: the fiber was aborted while k was running, after an acquire,
\* and the resource was released.
C1_Witness ==
  /\ fStatus = "Aborted"
  /\ abortedAt = "use"
  /\ acquireLog # <<>>
  /\ Len(releaseLog) = Len(acquireLog)

\* C2: whenever Fiber.abort is called (while k runs, between k's exit and
\* the release, or after use completed), no resource is released twice, and
\* once the fiber has ended every acquired resource was released exactly once.
C2_AbortReleasesExactlyOnce ==
  aborts > 0 =>
    /\ \A r \in Resources : ReleaseCount(r) <= 1
    /\ Quiescent => \A r \in Range(acquireLog) : ReleaseCount(r) = 1

\* C2 witness: abort was called after use had completed and released.
C2_Witness ==
  /\ fStatus = "Completed"
  /\ aborts > 0
  /\ abortedAt = "none"
  /\ \A r \in Range(acquireLog) : ReleaseCount(r) = 1

\* C3: when no release fails, use completes with exactly the exit of k(a).
C3_UseExitIsExitOfK ==
  (fStatus = "Completed" /\ \A r \in Range(acquireLog) : ~relFails[r])
    => useExit = kExit

\* C3 witness: k failed, the release ran and succeeded, and use completed
\* with the failure of k.
C3_Witness ==
  /\ fStatus = "Completed"
  /\ kExit = KErr
  /\ releaseLog # <<>>
  /\ \A r \in Range(acquireLog) : ~relFails[r]
  /\ useExit = KErr

\* C4: if k succeeds and release(a) fails with r, use fails with r (with two
\* resources: with the error of a release that failed).
C4_ReleaseFailureFailsUse ==
  (/\ fStatus = "Completed"
   /\ kExit.tag = "Right"
   /\ \E r \in Range(acquireLog) : relFails[r])
    => (/\ useExit.tag = "Left"
        /\ \E r \in Range(acquireLog) : relFails[r] /\ useExit.val = RelErr(r))

\* C4 witness: k succeeded, the release of the one resource failed, and use
\* completed with the release error.
C4_Witness ==
  /\ fStatus = "Completed"
  /\ mKind = "make"
  /\ kExit.tag = "Right"
  /\ relFails[1]
  /\ useExit = Left(RelErr(1))

\* C5: under m.chain(f).use(k) and m.map(f).use(k) no resource is acquired
\* twice or released twice, every acquired resource is released once the
\* fiber has ended, and the releases are in reverse order of the acquires.
C5_AcquireOnceReleaseLifo ==
  mKind \in {"chain", "map"} =>
    /\ \A r \in Resources : AcquireCount(r) <= 1 /\ ReleaseCount(r) <= 1
    /\ Quiescent => releaseLog = Reverse(acquireLog)

\* C5 witness: m.chain(f).use(k) completed, the inner resource released
\* before the outer one.
C5_Witness ==
  /\ mKind = "chain"
  /\ fStatus = "Completed"
  /\ acquireLog = <<1, 2>>
  /\ releaseLog = <<2, 1>>

\* ------------------------------------------------------------------- Queue
\* Queue.bounded(capacity): two empty lists and the capacity.
bounded(cap) ==
  [capacity |-> cap, Q |-> <<>>, T |-> <<>>]

\* PureMutableList.shift: the head, or undefined when the list is empty.
shiftValue(list) == IF list = <<>> THEN Undefined ELSE Head(list)
shiftRest(list) == IF list = <<>> THEN <<>> ELSE Tail(list)

\* take's branch: `sz !== undefined` resolves at once with sz.
takeResolvesInverted(sz) == sz = Undefined
takeResolves(sz) == sz # Undefined

\* Queue.take for the take numbered id: shift Q; resolve with the item, or
\* create an Await, add it to T and suspend on await.get.
take(q, t, id) ==
  LET sz == shiftValue(q) IN
  IF takeResolves(sz)
    THEN [Q |-> shiftRest(q), T |-> t, res |-> sz, waits |-> FALSE]
    ELSE [Q |-> shiftRest(q), T |-> Append(t, id), res |-> Undefined, waits |-> TRUE]

\* Queue.setAwaited(value): itar shifts T until it is empty, building one
\* set(FIO.of(value)) per taker; all of them run; then, if there was any taker,
\* Q.shift drops the head of Q.
setAwaitedKeepsItem(value, q, t, cells) ==
  [Q    |-> q,
   T    |-> <<>>,
   cell |-> AwaitSetAll(cells, t, value)]
setAwaited(value, q, t, cells) ==
  [Q    |-> IF t # <<>> THEN shiftRest(q) ELSE q,
   T    |-> <<>>,
   cell |-> AwaitSetAll(cells, t, value)]

\* Queue.offer(a) = Q.add(a).tap(_ => setAwaited(_.value)): capacity is not read.
offerNoWake(a, q, t, cells) == [Q |-> Append(q, a), T |-> t, cell |-> cells]
offer(a, q, t, cells) == setAwaited(a, Append(q, a), t, cells)

QueueVarsInit ==
  /\ \E cap \in 1..MaxCap :
       /\ capacity = bounded(cap).capacity
       /\ Q = bounded(cap).Q
       /\ T = bounded(cap).T
  /\ cell = [i \in TakeIds |-> Undefined]
  /\ takeSt = [i \in TakeIds |-> "new"]
  /\ takeRes = [i \in TakeIds |-> Undefined]
  /\ takeAt = [i \in TakeIds |-> 0]
  /\ takeWaited = [i \in TakeIds |-> FALSE]
  /\ offered = <<>>

\* a fiber runs queue.offer(a) to completion (no suspension point in it).
Offer(a) ==
  /\ Len(offered) < MaxOffers
  /\ LET r == offer(a, Q, T, cell) IN
       /\ Q' = r.Q
       /\ T' = r.T
       /\ cell' = r.cell
  /\ offered' = Append(offered, a)
  /\ UNCHANGED <<capacity, takeSt, takeRes, takeAt, takeWaited>>
  /\ UNCHANGED notQueue

\* a fiber runs queue.take up to its result or its suspension in await.get.
Take(id) ==
  /\ takeSt[id] = "new"
  /\ \A j \in TakeIds : j < id => takeSt[j] # "new"
  /\ LET r == take(Q, T, id) IN
       /\ Q' = r.Q
       /\ T' = r.T
       /\ takeSt' = [takeSt EXCEPT ![id] = IF r.waits THEN "suspended" ELSE "done"]
       /\ takeRes' = [takeRes EXCEPT ![id] = r.res]
       /\ takeWaited' = [takeWaited EXCEPT ![id] = r.waits]
  /\ takeAt' = [takeAt EXCEPT ![id] = Len(offered)]
  /\ UNCHANGED <<capacity, cell, offered>>
  /\ UNCHANGED notQueue

\* the scheduler resumes a take suspended in await.get once its Await is set.
Resume(id) ==
  /\ takeSt[id] = "suspended"
  /\ cell[id] # Undefined
  /\ takeSt' = [takeSt EXCEPT ![id] = "done"]
  /\ takeRes' = [takeRes EXCEPT ![id] = cell[id]]
  /\ UNCHANGED <<capacity, Q, T, cell, takeAt, takeWaited, offered>>
  /\ UNCHANGED notQueue

QueueNext ==
  \/ \E a \in Values : Offer(a)
  \/ \E id \in TakeIds : Take(id)
  \/ \E id \in TakeIds : Resume(id)

\* ------------------------------------------------------------ Queue claims
\* the value of the first offer made after take i was issued, once there is one
OfferAfter(i) ==
  IF Len(offered) > takeAt[i] THEN offered[takeAt[i] + 1] ELSE Undefined

\* C6: the values returned by the takes, in the order the takes were issued,
\* are the values passed to offer in the order they were offered: the i-th
\* take returns the i-th offered value.
C6_TakesEqualOffers ==
  \A i \in TakeIds :
    takeSt[i] = "done" => (i <= Len(offered) /\ takeRes[i] = offered[i])

\* C7: an offer made while two or more takes are suspended resumes exactly
\* the earliest one with the offered value; the others stay suspended in T.
C7_OfferWakesOneTaker ==
  [][(Len(offered') = Len(offered) + 1 /\ Len(T) >= 2)
       => (/\ T' = Tail(T)
           /\ cell' = [cell EXCEPT ![Head(T)] = offered'[Len(offered')]])]_vars

\* C8: a queue made by Queue.bounded(cap) never stores more than cap items.
C8_ItemsWithinCapacity == Len(Q) <= capacity

\* C9: between offer and take steps the queue never has both stored items
\* and suspended takers.
C9_ItemsOrTakersEmpty == Q = <<>> \/ T = <<>>

\* C9 witness: offers and takes have run, one take got an item, and a take is
\* suspended in T.
C9_Witness ==
  /\ offered # <<>>
  /\ T # <<>>
  /\ \E i \in TakeIds : takeSt[i] = "done" /\ ~takeWaited[i]

\* C10: a take issued on an empty queue has no result before an offer
\* happens, and once the next offer(v) has happened it eventually completes
\* with v.
C10_SuspendedTakeGetsNextOffer ==
  /\ [](\A i \in TakeIds :
          (takeWaited[i] /\ takeSt[i] = "done")
            => (Len(offered) > takeAt[i] /\ takeRes[i] = OfferAfter(i)))
  /\ \A i \in TakeIds :
       (takeSt[i] = "suspended" /\ Len(offered) > takeAt[i])
         ~> (takeSt[i] = "done" /\ takeRes[i] = OfferAfter(i))

\* C10 witness: a take that suspended on the empty queue completed with the
\* value of the offer that followed it.
C10_Witness ==
  \E i \in TakeIds :
    /\ takeWaited[i]
    /\ takeSt[i] = "done"
    /\ Len(offered) > takeAt[i]
    /\ takeRes[i] = OfferAfter(i)

\* C28: when an offer wakes suspended takers, the item it removes from the
\* stored items is the value this same offer just inserted: no previously
\* stored item is dropped and the offered value is not left in the items.
C28_WakingOfferRemovesItsOwnItem ==
  [][(Len(offered') = Len(offered) + 1 /\ T # <<>>)
       => (/\ shiftValue(Append(Q, offered'[Len(offered')])) = offered'[Len(offered')]
           /\ Q' = Q)]_vars

C28_Witness ==
  /\ Q = <<>>
  /\ \E i, j \in TakeIds :
       /\ takeSt[j] = "done" /\ ~takeWaited[j]
       /\ takeSt[i] = "suspended" /\ takeWaited[i]
       /\ Len(offered) > 1
       /\ cell[i] = offered[Len(offered)]

\* ------------------------------------------------------------------- takeN
\* immutable List: prepend puts the value at the head, asArray lists the
\* values from the head on.
prepend(list, x) == <<x>> \o list
asArray(list) == [k \in 1..Len(list) |-> list[k]]

\* takeN's itar(i, list) run by one fiber until it resolves or a take
\* suspends: FIO.if(i === n, FIO.of(list), take.chain(_ => itar(i + 1,
\* list.prepend(_)))).
RECURSIVE itarTakeN(_, _, _, _, _)
itarTakeN(i, list, q, t, n) ==
  IF i = n
    THEN [list |-> list, Q |-> q, T |-> t, resolved |-> TRUE]
    ELSE LET r == take(q, t, i + 1) IN
         IF r.waits
           THEN [list |-> list, Q |-> r.Q, T |-> r.T, resolved |-> FALSE]
           ELSE itarTakeN(i + 1, prepend(list, r.res), r.Q, r.T, n)

\* takeN(n) = itar(0, List.empty).map(_ => _.asArray)
takeNResult(list) == asArray(list)

\* the value the k-th take of takeN returned, given the List built so far
TakenAt(list, k) == list[Len(list) - k + 1]

TakeNVarsInit ==
  /\ tnN \in 0..MaxTakes
  /\ tnList = <<>>
  /\ tnRes = <<>>
  /\ tnSt = "new"

TakeNIdle ==
  /\ tnN = 0
  /\ tnList = <<>>
  /\ tnRes = <<>>
  /\ tnSt = "done"

\* the queue and takeN state after the fiber ran itar on from `list`
TakeNRuns(list) ==
  LET r == itarTakeN(Len(list), list, Q, T, tnN)
      got == Len(r.list)
  IN /\ Q' = r.Q
     /\ T' = r.T
     /\ tnList' = r.list
     /\ takeSt' = [id \in TakeIds |->
                     IF id <= got THEN "done"
                     ELSE IF id = got + 1 /\ ~r.resolved THEN "suspended"
                     ELSE takeSt[id]]
     /\ takeRes' = [id \in TakeIds |->
                      IF id <= got THEN TakenAt(r.list, id) ELSE takeRes[id]]
     /\ takeWaited' = [id \in TakeIds |->
                         IF id = got + 1 /\ ~r.resolved THEN TRUE ELSE takeWaited[id]]
     /\ takeAt' = [id \in TakeIds |->
                     IF Len(list) < id /\ id <= got + 1 /\ id <= tnN
                       THEN Len(offered) ELSE takeAt[id]]
     /\ tnSt' = IF r.resolved THEN "done" ELSE "waiting"
     /\ tnRes' = IF r.resolved THEN takeNResult(r.list) ELSE tnRes
     /\ UNCHANGED <<capacity, cell, offered, tnN>>
     /\ UNCHANGED notTakeN

\* a fiber starts queue.takeN(n)
TakeNStart ==
  /\ tnSt = "new"
  /\ TakeNRuns(<<>>)

\* the take takeN is suspended in was set by an offer: the fiber goes on
TakeNResume ==
  /\ tnSt = "waiting"
  /\ cell[Len(tnList) + 1] # Undefined
  /\ TakeNRuns(prepend(tnList, cell[Len(tnList) + 1]))

TakeNNext ==
  \/ \E a \in Values : Offer(a)
  \/ TakeNStart
  \/ TakeNResume

\* -------------------------------------------------------------- takeN claim
\* C11: takeN(n) resolves only after n values were taken, with exactly those
\* n values in the order they were taken (oldest first); takeN(0) resolves
\* with the empty array.
C11_TakeNInTakeOrder ==
  tnSt = "done" =>
    /\ \A k \in 1..tnN : takeSt[k] = "done"
    /\ Len(tnRes) = tnN
    /\ \A k \in 1..tnN : tnRes[k] = takeRes[k]

\* -------------------------------------------------------------------- once
RunIds == 1..MaxRuns

\* an Await: `flag` once set was called, `result` once the effect given to
\* set has exited
EmptyAwait == [flag |-> FALSE, result |-> NoExit]

\* eff.once = env.chain(env => Await.of().map(AWT => AWT.set(eff.provide(env))
\* .and(AWT.get))): the Await is made when once is evaluated, and every run of
\* the memoized effect uses that one Await (`shared`), not a new one (`fresh`).
onceAwaitPerRun(shared, fresh) == fresh
onceAwait(shared, fresh) == shared

OnceVarsInit ==
  /\ awFlag = EmptyAwait.flag
  /\ awResult = EmptyAwait.result
  /\ runSt = [i \in RunIds |-> "new"]
  /\ runExit = [i \in RunIds |-> NoExit]
  /\ runWaited = [i \in RunIds |-> FALSE]
  /\ evalStarted = 0
  /\ evalExits = <<>>

OnceIdle ==
  /\ awFlag = FALSE
  /\ awResult = NoExit
  /\ runSt = [i \in RunIds |-> "done"]
  /\ runExit = [i \in RunIds |-> NoExit]
  /\ runWaited = [i \in RunIds |-> FALSE]
  /\ evalStarted = 0
  /\ evalExits = <<>>

\* a fiber starts run i of the memoized effect: AWT.set(eff) — the first set
\* starts evaluating eff in this fiber, a later one returns false — and then
\* AWT.get, which yields the stored exit or suspends until there is one.
RunM(i) ==
  /\ runSt[i] = "new"
  /\ LET aw == onceAwait([flag |-> awFlag, result |-> awResult], EmptyAwait) IN
       IF ~aw.flag
         THEN /\ awFlag' = TRUE
              /\ evalStarted' = evalStarted + 1
              /\ runSt' = [runSt EXCEPT ![i] = "evaluating"]
              /\ UNCHANGED <<runExit, runWaited>>
         ELSE /\ UNCHANGED <<awFlag, evalStarted>>
              /\ IF aw.result # NoExit
                   THEN /\ runSt' = [runSt EXCEPT ![i] = "done"]
                        /\ runExit' = [runExit EXCEPT ![i] = aw.result]
                        /\ UNCHANGED runWaited
                   ELSE /\ runSt' = [runSt EXCEPT ![i] = "waiting"]
                        /\ runWaited' = [runWaited EXCEPT ![i] = TRUE]
                        /\ UNCHANGED runExit
  /\ UNCHANGED <<awResult, evalExits>>
  /\ UNCHANGED notOnce

\* eff, evaluated inside set by run i, exits with e: the Await stores the
\* exit, and the run's AWT.get yields it.
EffExits(i, e) ==
  /\ runSt[i] = "evaluating"
  /\ awResult' = e
  /\ evalExits' = Append(evalExits, e)
  /\ runSt' = [runSt EXCEPT ![i] = "done"]
  /\ runExit' = [runExit EXCEPT ![i] = e]
  /\ UNCHANGED <<awFlag, evalStarted, runWaited>>
  /\ UNCHANGED notOnce

\* a run suspended in AWT.get is resumed with the stored exit.
WakeRun(i) ==
  /\ runSt[i] = "waiting"
  /\ awResult # NoExit
  /\ runSt' = [runSt EXCEPT ![i] = "done"]
  /\ runExit' = [runExit EXCEPT ![i] = awResult]
  /\ UNCHANGED <<awFlag, awResult, runWaited, evalStarted, evalExits>>
  /\ UNCHANGED notOnce

\* the exits eff may have: a value, or a failure
EffExitSet == {Right(v) : v \in Values} \cup {KErr}

OnceNext ==
  \/ \E i \in RunIds : RunM(i)
  \/ \E i \in RunIds : \E e \in EffExitSet : EffExits(i, e)
  \/ \E i \in RunIds : WakeRun(i)

Children == {"L", "R"}
Fibers == {"P", "L", "R", "W1", "W2"}

\* no delay handle outstanding
NoTimer == -1

Other(c) == IF c = "L" THEN "R" ELSE "L"
ChildOf(w) == IF w = "W1" THEN "L" ELSE "R"

\* the state the fiber handlers below work on
RaceState ==
  [asapQ |-> asapQ, pc |-> pc, fst |-> fst, fexit |-> fexit, timerAt |-> timerAt,
   waiters |-> waiters, doneFlag |-> doneFlag, doneRes |-> doneRes,
   setCalls |-> setCalls, cbRun |-> cbRun, cCalls |-> cCalls,
   timerCancels |-> timerCancels, exitAt |-> exitAt]

\* the state with the first task taken off the asap queue
Popped == [RaceState EXCEPT !.asapQ = Tail(asapQ)]

\* the waiters of fiber c are handed to the scheduler, in registration order
Notify(S, c) ==
  [S EXCEPT !.asapQ = S.asapQ \o S.waiters[c], !.waiters[c] = <<>>]

\* fiber c completes with `exit`
completeFiber(S, c, exit) ==
  Notify([S EXCEPT !.fst[c] = "Completed", !.fexit[c] = exit, !.pc[c] = "end",
                   !.exitAt[c] = now], c)

\* Fiber.abort on c: a no-op on a terminal fiber; else the fiber is Aborted,
\* its scheduler handle cancelled, and its waiters notified
abortFiberKeepsTimer(S, c) ==
  IF S.fst[c] # "Pending" THEN S
  ELSE Notify([S EXCEPT !.fst[c] = "Aborted",
                        !.asapQ = SelectSeq(S.asapQ, LAMBDA f : f # c),
                        !.pc[c] = "end"], c)
abortFiber(S, c) ==
  IF S.fst[c] # "Pending" THEN S
  ELSE Notify([S EXCEPT !.fst[c] = "Aborted",
                        !.timerAt[c] = NoTimer,
                        !.timerCancels[c] = IF S.timerAt[c] # NoTimer
                                              THEN S.timerCancels[c] + 1
                                              ELSE S.timerCancels[c],
                        !.asapQ = SelectSeq(S.asapQ, LAMBDA f : f # c),
                        !.pc[c] = "end"], c)

\* the effect `done` was set to has exited: the exit is stored and the
\* fiber suspended in done.get is handed to the scheduler
setDone(S, exit) ==
  [S EXCEPT !.doneRes = exit,
            !.asapQ = IF S.pc["P"] = "get" THEN Append(S.asapQ, "P") ELSE S.asapQ]

\* the combining function of par: (a, b) => [a, b], as a number
c(a1, a2) == a1 * 10 + a2

\* race's callbacks, (E, F) => F.abort.const(E): the other fiber is aborted
\* and the effect succeeds with the Either E
raceCbNoAbort(S, other, E) == setDone(S, E)
raceCb(S, other, E) == setDone(abortFiber(S, other), E)

\* zipWithPar's callbacks on a failure: cause => F.abort.and(QIO.reject(cause))
zipCauseNoAbort(S, other, cause) == setDone(S, Left(cause))
zipCause(S, other, cause) == setDone(abortFiber(S, other), Left(cause))

\* zipWithPar's callbacks on a success: cb1 is a1 => F.join.map(a2 => c(a1, a2)),
\* cb2 is a2 => F.join.map(a1 => c(a1, a2))
zipCombine1(a1, a2) == c(a1, a2)
zipCombine2Swapped(a2, a1) == c(a2, a1)
zipCombine2(a2, a1) == c(a1, a2)

\* the arguments c gets from the callback of `side`, own value and joined value
zipArgs(side, own, joined) ==
  IF side = "L" THEN <<own, joined>> ELSE <<joined, own>>

\* F.join.map(...) run by watcher w of `side`, which holds the value `own`:
\* join yields the other fiber's success, propagates its failure, suspends
\* while it is pending and never resumes if it was aborted
zipJoin(S, side, w, own) ==
  LET o == Other(side) IN
  IF S.fst[o] = "Completed"
    THEN IF S.fexit[o].tag = "Right"
           THEN setDone([S EXCEPT !.cCalls = Append(S.cCalls, zipArgs(side, own, S.fexit[o].val))],
                        Right(IF side = "L" THEN zipCombine1(own, S.fexit[o].val)
                                            ELSE zipCombine2(own, S.fexit[o].val)))
           ELSE setDone(S, S.fexit[o])
    ELSE IF S.fst[o] = "Pending"
           THEN [S EXCEPT !.waiters[o] = Append(S.waiters[o], w), !.pc[w] = "join"]
           ELSE [S EXCEPT !.pc[w] = "never"]

\* the effect cb(E, F) built by the callback of `side`, run by watcher w
cbEffect(S, mode, side, w, E) ==
  IF mode = "race" THEN raceCb(S, Other(side), E)
  ELSE IF E.tag = "Left" THEN zipCause(S, Other(side), E.val)
  ELSE zipJoin(S, side, w, E.val)

\* done.set(cb(E, F)): the first set wins and runs the effect; a later set
\* returns false and its effect is not run
raceWithSetEager(S, mode, side, w, E) ==
  cbEffect([S EXCEPT !.setCalls[side] = S.setCalls[side] + 1,
                     !.doneFlag = IF S.doneFlag = "none" THEN side ELSE S.doneFlag,
                     !.cbRun[side] = TRUE,
                     !.pc[w] = "end"], mode, side, w, E)
raceWithSet(S, mode, side, w, E) ==
  IF S.doneFlag # "none"
    THEN [S EXCEPT !.setCalls[side] = S.setCalls[side] + 1, !.pc[w] = "end"]
    ELSE cbEffect([S EXCEPT !.setCalls[side] = S.setCalls[side] + 1,
                            !.doneFlag = side,
                            !.cbRun[side] = TRUE,
                            !.pc[w] = "end"], mode, side, w, E)

\* resume1 / resume2 after await yielded: Option.isSome(exit) ?
\* done.set(cb(exit.value, F)) : QIO.of(true)
resume(S, mode, w) ==
  IF S.fst[ChildOf(w)] = "Completed"
    THEN raceWithSet(S, mode, ChildOf(w), w, S.fexit[ChildOf(w)])
    ELSE [S EXCEPT !.pc[w] = "end"]

\* QIO.fromEither: Left e => QIO.reject(e), Right a => QIO.of(a)
fromEither(E) == IF E.tag = "Left" THEN Left(E.val) ELSE Right(E.val)

\* race = raceWith(...).chain(E => QIO.fromEither(E)); zipWithPar = raceWith(...)
combinatorExit(mode, res) == IF mode = "race" THEN fromEither(res) ELSE res

\* the exits a child effect may have
ChildExitSet == {Right(v) : v \in Values} \cup {KErr}

RaceVarsInit ==
  /\ rMode \in {"race", "zip"}
  /\ rDelay \in [Children -> 0..MaxDelay]
  /\ rOut \in [Children -> ChildExitSet]
  /\ now = 0
  /\ asapQ = <<"P">>
  /\ pc = [f \in Fibers |-> "start"]
  /\ fst = [ch \in Children |-> "Pending"]
  /\ fexit = [ch \in Children |-> NoExit]
  /\ timerAt = [ch \in Children |-> NoTimer]
  /\ waiters = [ch \in Children |-> <<>>]
  /\ doneFlag = "none"
  /\ doneRes = NoExit
  /\ setCalls = [ch \in Children |-> 0]
  /\ cbRun = [ch \in Children |-> FALSE]
  /\ cCalls = <<>>
  /\ raceExit = NoExit
  /\ timerCancels = [ch \in Children |-> 0]
  /\ exitAt = [ch \in Children |-> -1]
  /\ pAbort = "no"

RaceIdle ==
  /\ rMode = "race"
  /\ rDelay = [ch \in Children |-> 0]
  /\ rOut = [ch \in Children |-> NoExit]
  /\ now = 0
  /\ asapQ = <<>>
  /\ pc = [f \in Fibers |-> "end"]
  /\ fst = [ch \in Children |-> "Aborted"]
  /\ fexit = [ch \in Children |-> NoExit]
  /\ timerAt = [ch \in Children |-> NoTimer]
  /\ waiters = [ch \in Children |-> <<>>]
  /\ doneFlag = "none"
  /\ doneRes = NoExit
  /\ setCalls = [ch \in Children |-> 0]
  /\ cbRun = [ch \in Children |-> FALSE]
  /\ cCalls = <<>>
  /\ raceExit = NoExit
  /\ timerCancels = [ch \in Children |-> 0]
  /\ exitAt = [ch \in Children |-> -1]
  /\ pAbort = "no"

\* the handler's resulting state becomes the next state
RaceBecomes(S) ==
  /\ asapQ' = S.asapQ
  /\ pc' = S.pc
  /\ fst' = S.fst
  /\ fexit' = S.fexit
  /\ timerAt' = S.timerAt
  /\ waiters' = S.waiters
  /\ doneFlag' = S.doneFlag
  /\ doneRes' = S.doneRes
  /\ setCalls' = S.setCalls
  /\ cbRun' = S.cbRun
  /\ cCalls' = S.cCalls
  /\ timerCancels' = S.timerCancels
  /\ exitAt' = S.exitAt
  /\ UNCHANGED <<rMode, rDelay, rOut>>
  /\ UNCHANGED notRace

\* the fiber of raceWith runs: Await.of, this.fork, that.fork, resume1.fork,
\* resume2.fork — each fork hands a new fiber to the scheduler — and done.get
PStarts ==
  /\ asapQ # <<>> /\ Head(asapQ) = "P" /\ pc["P"] = "start"
  /\ RaceBecomes([Popped EXCEPT !.asapQ = Tail(asapQ) \o <<"L", "R", "W1", "W2">>,
                                !.pc["P"] = "get"])
  /\ UNCHANGED <<now, raceExit, pAbort>>

\* child fiber ch starts its effect: it exits at once, or sets a delay handle
ChildStarts(ch) ==
  /\ asapQ # <<>> /\ Head(asapQ) = ch /\ pc[ch] = "start"
  /\ RaceBecomes(IF rDelay[ch] = 0
                   THEN completeFiber(Popped, ch, rOut[ch])
                   ELSE [Popped EXCEPT !.timerAt[ch] = now + rDelay[ch],
                                       !.pc[ch] = "sleep"])
  /\ UNCHANGED <<now, raceExit, pAbort>>

\* the delay handle of ch fires: its fiber is handed to the scheduler
TimerFires(ch) ==
  /\ timerAt[ch] = now
  /\ RaceBecomes([RaceState EXCEPT !.timerAt[ch] = NoTimer,
                                   !.asapQ = Append(asapQ, ch),
                                   !.pc[ch] = "fired"])
  /\ UNCHANGED <<now, raceExit, pAbort>>

\* child fiber ch resumes after its delay and completes
ChildResumes(ch) ==
  /\ asapQ # <<>> /\ Head(asapQ) = ch /\ pc[ch] = "fired"
  /\ RaceBecomes(completeFiber(Popped, ch, rOut[ch]))
  /\ UNCHANGED <<now, raceExit, pAbort>>

\* watcher w starts: L.await / R.await suspends while the child is pending
WatcherStarts(w) ==
  /\ asapQ # <<>> /\ Head(asapQ) = w /\ pc[w] = "start"
  /\ RaceBecomes(IF fst[ChildOf(w)] = "Pending"
                   THEN [Popped EXCEPT !.waiters[ChildOf(w)] = Append(waiters[ChildOf(w)], w),
                                       !.pc[w] = "await"]
                   ELSE resume(Popped, rMode, w))
  /\ UNCHANGED <<now, raceExit, pAbort>>

\* watcher w resumes from await
WatcherWakes(w) ==
  /\ asapQ # <<>> /\ Head(asapQ) = w /\ pc[w] = "await"
  /\ RaceBecomes(resume(Popped, rMode, w))
  /\ UNCHANGED <<now, raceExit, pAbort>>

\* watcher w resumes from F.join
WatcherJoins(w) ==
  /\ asapQ # <<>> /\ Head(asapQ) = w /\ pc[w] = "join"
  /\ RaceBecomes(zipJoin([Popped EXCEPT !.pc[w] = "end"], ChildOf(w), w,
                         fexit[ChildOf(w)].val))
  /\ UNCHANGED <<now, raceExit, pAbort>>

\* the fiber of raceWith resumes from done.get and exits
PWakes ==
  /\ asapQ # <<>> /\ Head(asapQ) = "P" /\ pc["P"] = "get"
  /\ raceExit' = combinatorExit(rMode, doneRes)
  /\ RaceBecomes([Popped EXCEPT !.pc["P"] = "end"])
  /\ UNCHANGED <<now, pAbort>>

\* nothing is left to run at this time: the clock moves to the next handle
Tick ==
  /\ asapQ = <<>>
  /\ \A ch \in Children : timerAt[ch] # now
  /\ \E ch \in Children : timerAt[ch] # NoTimer
  /\ now' = now + 1
  /\ UNCHANGED <<rMode, rDelay, rOut, asapQ, pc, fst, fexit, timerAt, waiters,
                 doneFlag, doneRes, setCalls, cbRun, cCalls, raceExit,
                 timerCancels, exitAt, pAbort>>
  /\ UNCHANGED notRace

\* another fiber aborts the fiber of raceWith while it is suspended in
\* done.get: it is marked aborted and taken off the scheduler. raceWith
\* registers nothing on its own fiber, and abort reaches no other fiber
ParentAborts ==
  /\ pc["P"] = "get"
  /\ pAbort' = IF \A ch \in Children : fst[ch] = "Pending" THEN "bothRunning" ELSE "other"
  /\ RaceBecomes([RaceState EXCEPT !.pc["P"] = "aborted",
                                   !.asapQ = SelectSeq(asapQ, LAMBDA f : f # "P")])
  /\ UNCHANGED <<now, raceExit>>

RaceNext ==
  \/ PStarts
  \/ \E ch \in Children : ChildStarts(ch)
  \/ \E ch \in Children : TimerFires(ch)
  \/ \E ch \in Children : ChildResumes(ch)
  \/ \E w \in {"W1", "W2"} : WatcherStarts(w)
  \/ \E w \in {"W1", "W2"} : WatcherWakes(w)
  \/ \E w \in {"W1", "W2"} : WatcherJoins(w)
  \/ PWakes
  \/ Tick
  \/ ParentAborts

\* the side whose effect exits first on the clock, if there is one
ExitsFirst(a) == rDelay[a] < rDelay[Other(a)]

\* C13: under the deterministic scheduler, if a exits (by success or by
\* failure) strictly before b, a.race(b) completes with a's exit, b's fiber
\* is aborted and b's result is never delivered; symmetrically for b.
C13_RaceFirstExitWins ==
  rMode = "race" =>
    \A a \in Children :
      ExitsFirst(a) =>
        /\ fst[Other(a)] # "Completed"
        /\ fexit[Other(a)].tag = "None"
        /\ pc["P"] = "end" => /\ raceExit = rOut[a]
                              /\ fst[Other(a)] = "Aborted"

C13_Witness ==
  /\ rMode = "race"
  /\ ExitsFirst("R")
  /\ rOut["R"].tag = "Left"
  /\ rDelay["R"] > 0
  /\ pc["P"] = "end"
  /\ raceExit = rOut["R"]
  /\ fst["L"] = "Aborted"

\* C25: if the fiber running QIO.timeout(v, ms) is aborted before ms has
\* elapsed, the delay handle is cancelled exactly once and v is never
\* delivered; if it is not aborted, the effect resolves with v exactly once
\* after ms.
C25_TimeoutCancelledOrDelivered ==
  \A ch \in Children :
    (rDelay[ch] > 0 /\ rOut[ch].tag = "Right") =>
      /\ fst[ch] = "Aborted" =>
            /\ fexit[ch].tag = "None" /\ exitAt[ch] = -1
            /\ timerAt[ch] = NoTimer
            /\ pc[ch] = "end"
            /\ now < rDelay[ch] => timerCancels[ch] = 1
      /\ fst[ch] = "Completed" =>
            /\ fexit[ch] = rOut[ch] /\ exitAt[ch] = rDelay[ch]
            /\ timerCancels[ch] = 0
      /\ timerCancels[ch] <= 1
      /\ (fst[ch] = "Pending" /\ pc[ch] # "start") => now <= rDelay[ch]

C25_Witness ==
  /\ rMode = "race"
  /\ rDelay["L"] > 0 /\ rOut["L"].tag = "Right"
  /\ ExitsFirst("L")
  /\ rOut["R"].tag = "Right"
  /\ fst["L"] = "Completed" /\ exitAt["L"] = rDelay["L"]
  /\ fst["R"] = "Aborted" /\ timerCancels["R"] = 1
  /\ now = rDelay["L"]
  /\ asapQ = <<>>

\* C29: if the fiber evaluating a.raceWith(b, cb1, cb2) is aborted while
\* both child fibers are still running, both child fibers are aborted as
\* well: no child keeps running after its parent was aborted.
C29_ParentAbortReachesChildren ==
  pAbort = "bothRunning" => \A ch \in Children : fst[ch] # "Completed" /\ exitAt[ch] = -1

\* the exit of the effect the callback of `side` builds, from the children's exits
WinningExit(side) ==
  IF rMode = "race" \/ rOut[side].tag = "Left" THEN rOut[side]
  ELSE IF rOut[Other(side)].tag = "Left" THEN rOut[Other(side)]
  ELSE Right(c(rOut["L"].val, rOut["R"].val))

\* C14: in a.raceWith(b, cb1, cb2), for every interleaving of the two
\* completions, exactly one of the done.set calls succeeds, the effect built
\* by the losing callback is never executed, and raceWith completes with the
\* result of the winning callback's effect.
C14_OneSetWins ==
  /\ doneFlag = "none" => \A ch \in Children : setCalls[ch] = 0 /\ ~cbRun[ch]
  /\ doneFlag # "none" => /\ setCalls[doneFlag] = 1
                          /\ cbRun[doneFlag]
                          /\ ~cbRun[Other(doneFlag)]
                          /\ setCalls[Other(doneFlag)] <= 1
  /\ pc["P"] = "end" => doneFlag # "none" /\ raceExit = WinningExit(doneFlag)

C14_Witness ==
  /\ setCalls["L"] = 1
  /\ setCalls["R"] = 1
  /\ doneFlag = "R"
  /\ ~cbRun["L"]
  /\ pc["P"] = "end"
  /\ raceExit = WinningExit("R")

\* C15: when both sides succeed, a.zipWithPar(b, c) resolves with
\* c(value of a, value of b), whichever of a and b completes first.
C15_ZipWithParArgumentOrder ==
  (rMode = "zip" /\ rOut["L"].tag = "Right" /\ rOut["R"].tag = "Right" /\ pc["P"] = "end")
    => raceExit = Right(c(rOut["L"].val, rOut["R"].val))

C15_Witness ==
  /\ rMode = "zip"
  /\ rOut["L"].tag = "Right" /\ rOut["R"].tag = "Right"
  /\ rOut["L"].val # rOut["R"].val
  /\ ExitsFirst("R")
  /\ doneFlag = "R"
  /\ pc["P"] = "end"
  /\ raceExit = Right(c(rOut["L"].val, rOut["R"].val))

\* C16: in a.zipWithPar(b, c), if one side fails with cause e while the
\* other is still running, the other fiber is aborted, the combined effect
\* fails with e, and c is never called.
C16_ZipWithParFailureAbortsSibling ==
  rMode = "zip" =>
    \A a \in Children :
      (ExitsFirst(a) /\ rOut[a].tag = "Left") =>
        /\ cCalls = <<>>
        /\ fst[Other(a)] # "Completed"
        /\ cbRun[a] => fst[Other(a)] = "Aborted"
        /\ pc["P"] = "end" => raceExit = rOut[a]

C16_Witness ==
  /\ rMode = "zip"
  /\ ExitsFirst("L")
  /\ rOut["L"].tag = "Left"
  /\ rOut["R"].tag = "Right"
  /\ pc["R"] = "end"
  /\ fst["R"] = "Aborted"
  /\ pc["P"] = "end"
  /\ raceExit = rOut["L"]
  /\ cCalls = <<>>

\* ------------------------------------------------------- par, parN and seq
\* the accumulator of the folds of par and seq after the first k values:
\* each step prepends the next value to the list
RECURSIVE foldPrepend(_, _)
foldPrepend(vals, k) ==
  IF k = 0 THEN <<>> ELSE prepend(foldPrepend(vals, k - 1), vals[k])

\* par: .map(_ => _.asArray.reverse())
parResultNoReverse(list) == asArray(list)
parResult(list) == Reverse(asArray(list))

\* seq: .map(_ => _.asArray)
seqResult(list) == asArray(list)

\* parN: the chunk list.slice(0, N) of the list that starts after `at` effects
chunkEndWide(at, N, n) == IF at + N + 1 < n THEN at + N + 1 ELSE n
chunkEnd(at, N, n) == IF at + N < n THEN at + N ELSE n

\* the success values of the effects at + 1 .. hi
ChunkVals(at, hi) == [k \in 1..(hi - at) |-> pnIos[at + k].val]

\* the effects at + 1 .. hi are forked
ForkChunk(e, at, hi) ==
  [i \in DOMAIN e |-> IF at < i /\ i <= hi THEN "running" ELSE e[i]]

Running == {i \in DOMAIN est : est[i] = "running"}

ParVarsInit ==
  /\ pnN \in 1..MaxN
  /\ \E n \in 0..MaxIos : pnIos \in [1..n -> ChildExitSet]
  /\ est = [i \in DOMAIN pnIos |-> "idle"]
  /\ chunkAt = 0
  /\ pnSt = "built"
  /\ parOut = [at |-> -1, arr |-> <<>>]
  /\ pnRes = <<>>
  /\ pOrder = <<>>

ParIdle ==
  /\ pnN = 1
  /\ pnIos = <<>>
  /\ est = <<>>
  /\ chunkAt = 0
  /\ pnSt = "done"
  /\ parOut = [at |-> -1, arr |-> <<>>]
  /\ pnRes = <<>>
  /\ pOrder = <<>>

\* parN(N, ios) is run: itar(ios) is QIO.of([]) on the empty list and else
\* starts QIO.par of the first chunk, which forks every effect of the chunk
ParNStarts ==
  /\ pnSt = "built"
  /\ IF Len(pnIos) = 0
       THEN pnSt' = "done" /\ UNCHANGED est
       ELSE /\ pnSt' = "running"
            /\ est' = ForkChunk(est, 0, chunkEnd(0, pnN, Len(pnIos)))
  /\ UNCHANGED <<pnN, pnIos, chunkAt, parOut, pnRes, pOrder>>
  /\ UNCHANGED notPar

\* effect i exits. On a success that completes its chunk, QIO.par resolves,
\* its array is concatenated and itar goes on with the rest of the list. On
\* a failure the zipWithPar nodes above i abort the effects after i that are
\* still running and QIO.par fails; the effects before i are not aborted.
ParEffectExits(i) ==
  /\ i \in Running
  /\ pOrder' = Append(pOrder, i)
  /\ IF pnIos[i].tag = "Right"
       THEN LET e1 == [est EXCEPT ![i] = "ok"]
                hi == chunkEnd(chunkAt, pnN, Len(pnIos))
                arr == parResult(foldPrepend(ChunkVals(chunkAt, hi), hi - chunkAt))
            IN IF pnSt = "running" /\ \A j \in (chunkAt + 1)..hi : e1[j] = "ok"
                 THEN /\ parOut' = [at |-> chunkAt, arr |-> arr]
                      /\ pnRes' = pnRes \o arr
                      /\ chunkAt' = hi
                      /\ pnSt' = IF hi = Len(pnIos) THEN "done" ELSE "running"
                      /\ est' = ForkChunk(e1, hi, chunkEnd(hi, pnN, Len(pnIos)))
                 ELSE /\ est' = e1
                      /\ UNCHANGED <<parOut, pnRes, chunkAt, pnSt>>
       ELSE /\ est' = [j \in DOMAIN est |->
                        IF j = i THEN "failed"
                        ELSE IF j > i /\ est[j] = "running" THEN "aborted"
                        ELSE est[j]]
            /\ pnSt' = "failed"
            /\ UNCHANGED <<parOut, pnRes, chunkAt>>
  /\ UNCHANGED <<pnN, pnIos>>
  /\ UNCHANGED notPar

ParNNext ==
  \/ ParNStarts
  \/ \E i \in 1..MaxIos : ParEffectExits(i)

\* C17: when every effect succeeds, QIO.par(ios) resolves with an array of
\* the length of ios whose i-th element is the success value of the i-th
\* effect, for every completion order.
C17_ParInListOrder ==
  parOut.at >= 0 =>
    parOut.arr = ChunkVals(parOut.at, chunkEnd(parOut.at, pnN, Len(pnIos)))

C17_Witness ==
  /\ parOut.at >= 0
  /\ Len(parOut.arr) = 2
  /\ parOut.arr[1] # parOut.arr[2]
  /\ parOut.arr = ChunkVals(parOut.at, parOut.at + 2)
  /\ pOrder = <<2, 1>>

\* C18: during QIO.parN(N, ios) with N >= 1, at no moment are more than N of
\* the listed effects running at the same time.
C18_ParNAtMostNRunning == Cardinality(Running) <= pnN

C18_Witness ==
  /\ Len(pnIos) > pnN + 1
  /\ chunkAt = pnN
  /\ Cardinality(Running) = pnN
  /\ pnN > 1

\* seq(ios) is run: the fold chains the effects, so the first one starts
SeqStarts ==
  /\ pnSt = "built"
  /\ IF Len(pnIos) = 0
       THEN pnSt' = "done" /\ UNCHANGED est
       ELSE pnSt' = "running" /\ est' = [est EXCEPT ![1] = "running"]
  /\ UNCHANGED <<pnN, pnIos, chunkAt, parOut, pnRes, pOrder>>
  /\ UNCHANGED notPar

\* effect i exits: on a success its value is prepended and the next effect
\* starts, or after the last one seq resolves; on a failure seq fails
SeqEffectExits(i) ==
  /\ i \in Running
  /\ pOrder' = Append(pOrder, i)
  /\ IF pnIos[i].tag = "Right"
       THEN IF i = Len(pnIos)
              THEN /\ est' = [est EXCEPT ![i] = "ok"]
                   /\ pnSt' = "done"
                   /\ pnRes' = seqResult(foldPrepend(ChunkVals(0, i), i))
              ELSE /\ est' = [est EXCEPT ![i] = "ok", ![i + 1] = "running"]
                   /\ UNCHANGED <<pnSt, pnRes>>
       ELSE /\ est' = [est EXCEPT ![i] = "failed"]
            /\ pnSt' = "failed"
            /\ UNCHANGED pnRes
  /\ UNCHANGED <<pnN, pnIos, chunkAt, parOut>>
  /\ UNCHANGED notPar

SeqNext ==
  \/ SeqStarts
  \/ \E i \in 1..MaxIos : SeqEffectExits(i)

\* C19: QIO.seq(ios) evaluates the effects one at a time in list order
\* (effect i+1 starts only after effect i has succeeded) and, when all
\* succeed, resolves with the array whose i-th element is the success value
\* of the i-th effect.
C19_SeqInListOrder ==
  /\ \A i \in DOMAIN est : (i > 1 /\ est[i] # "idle") => est[i - 1] = "ok"
  /\ Cardinality(Running) <= 1
  /\ (pnSt = "done" /\ Len(pnIos) > 0) => pnRes = ChunkVals(0, Len(pnIos))

\* ---------------------------------------------------------- Computation.fork
Handles == {"asap", "cmp"}

\* onRej: status = IOStatus.REJECTED; onRes: status = IOStatus.RESOLVED
onStatus(k) == IF k = "res" THEN "RESOLVED" ELSE "REJECTED"

\* the state when fork returns: status FORKED, the asap handle pushed
ComputationVarsInit ==
  /\ cStatus = "FORKED"
  /\ tickSt = "scheduled"
  /\ cancellations = <<"asap">>
  /\ handleCalls = [h \in Handles |-> 0]
  /\ calls = <<>>
  /\ cancelCalls = 0

ComputationIdle ==
  /\ cStatus = "CANCELLED"
  /\ tickSt = "cancelled"
  /\ cancellations = <<>>
  /\ handleCalls = [h \in Handles |-> 0]
  /\ calls = <<>>
  /\ cancelCalls = 0

\* the scheduled task runs this.cmp(sh, env, onRej, onRes): the body may call
\* one of the callbacks synchronously, and then returns, returns a cancel
\* function (pushed on cancellations) or throws (caught: rej(e) downstream)
ComputationTick(sync, ending) ==
  /\ tickSt = "scheduled"
  /\ tickSt' = "ran"
  /\ cStatus' = IF sync = "none" THEN cStatus ELSE onStatus(sync)
  /\ calls' = (IF sync = "none" THEN calls ELSE Append(calls, sync))
                \o (IF ending = "throw" THEN <<"rej">> ELSE <<>>)
  /\ cancellations' = IF ending = "cancel" THEN Append(cancellations, "cmp")
                                             ELSE cancellations
  /\ UNCHANGED <<handleCalls, cancelCalls>>
  /\ UNCHANGED notComputation

\* the asynchronous source calls onRes or onRej, which the body captured
SourceCalls(k) ==
  /\ tickSt = "ran"
  /\ Len(calls) < MaxCalls
  /\ cStatus' = onStatus(k)
  /\ calls' = Append(calls, k)
  /\ UNCHANGED <<tickSt, cancellations, handleCalls, cancelCalls>>
  /\ UNCHANGED notComputation

\* the cancel function fork returned is called: if status is FORKED it
\* becomes CANCELLED and every handle of cancellations is invoked
ComputationCancel ==
  /\ cancelCalls < MaxCancels
  /\ cancelCalls' = cancelCalls + 1
  /\ IF cStatus = "FORKED"
       THEN /\ cStatus' = "CANCELLED"
            /\ handleCalls' = [h \in Handles |->
                 handleCalls[h] + Len(SelectSeq(cancellations, LAMBDA x : x = h))]
            /\ tickSt' = IF tickSt = "scheduled" THEN "cancelled" ELSE tickSt
       ELSE UNCHANGED <<cStatus, handleCalls, tickSt>>
  /\ UNCHANGED <<cancellations, calls>>
  /\ UNCHANGED notComputation

ComputationNext ==
  \/ \E sync \in {"none", "res", "rej"}, ending \in {"return", "cancel", "throw"} :
       ComputationTick(sync, ending)
  \/ \E k \in {"res", "rej"} : SourceCalls(k)
  \/ ComputationCancel

\* C20: once the status of a fork has left FORKED for RESOLVED, REJECTED or
\* CANCELLED it never changes again, whatever later calls to res, rej or the
\* cancel function occur.
C20_StatusNeverChangesAgain ==
  [][cStatus # "FORKED" => cStatus' = cStatus]_vars

\* C21: for one fork the downstream rej / res continuations are invoked at
\* most once in total: every call after the first (a throw after a callback
\* included) is ignored.
C21_AtMostOneDownstreamCall == Len(calls) <= 1

\* C22: the cancel function is idempotent and a no-op once the computation
\* is terminal: each cancellation handle is invoked at most once, and none
\* is invoked after the computation has resolved or rejected.
C22_CancelIdempotentAndNoOpWhenTerminal ==
  [][/\ \A h \in Handles : handleCalls'[h] <= 1
     /\ calls # <<>> => handleCalls' = handleCalls]_vars

\* C27: after cancel was called on a fork that has not yet settled, neither
\* rej nor res is invoked downstream.
C27_NothingForwardedAfterCancel ==
  [][(handleCalls["asap"] = 1 /\ calls = <<>>) => calls' = <<>>]_vars

\* ------------------------------------------------------------------- Try
TryForks == 1..MaxForks

Thunks ==
  {[kind |-> "count", val |-> 0], [kind |-> "throw", val |-> KErr.val]}
    \cup {[kind |-> "const", val |-> v] : v \in Values}

\* what one execution of the thunk does when the counter is i: a counting
\* thunk returns i + 1, a constant one its value, a throwing one throws
thunkResult(th, i) ==
  IF th.kind = "throw" THEN Left(th.val)
  ELSE IF th.kind = "count" THEN Right(i + 1)
  ELSE Right(th.val)

\* the task fork schedules: try { res(thunk()) } catch (e) { rej(e) }.
\* The exit delivered downstream, and whether the exception leaves the task
taskNoCatch(r) ==
  IF r.tag = "Left" THEN [exits |-> <<>>, escaped |-> TRUE]
  ELSE [exits |-> <<r>>, escaped |-> FALSE]
task(r) ==
  IF r.tag = "Left" THEN [exits |-> <<Left(r.val)>>, escaped |-> FALSE]
  ELSE [exits |-> <<Right(r.val)>>, escaped |-> FALSE]

TryVarsInit ==
  /\ thunk \in Thunks
  /\ counter = 0
  /\ tTick = [f \in TryForks |-> "scheduled"]
  /\ thunkRuns = [f \in TryForks |-> 0]
  /\ thunkRes = [f \in TryForks |-> NoExit]
  /\ tExits = [f \in TryForks |-> <<>>]
  /\ escaped = FALSE

TryIdle ==
  /\ thunk = [kind |-> "const", val |-> 0]
  /\ counter = 0
  /\ tTick = [f \in TryForks |-> "cancelled"]
  /\ thunkRuns = [f \in TryForks |-> 0]
  /\ thunkRes = [f \in TryForks |-> NoExit]
  /\ tExits = [f \in TryForks |-> <<>>]
  /\ escaped = FALSE

\* the scheduler runs the task of fork f
TryTick(f) ==
  /\ tTick[f] = "scheduled"
  /\ tTick' = [tTick EXCEPT ![f] = "ran"]
  /\ thunkRuns' = [thunkRuns EXCEPT ![f] = thunkRuns[f] + 1]
  /\ thunkRes' = [thunkRes EXCEPT ![f] = thunkResult(thunk, counter)]
  /\ counter' = IF thunk.kind = "count" THEN counter + 1 ELSE counter
  /\ tExits' = [tExits EXCEPT ![f] = tExits[f] \o task(thunkResult(thunk, counter)).exits]
  /\ escaped' = (escaped \/ task(thunkResult(thunk, counter)).escaped)
  /\ UNCHANGED thunk
  /\ UNCHANGED notTry

\* fork f is cancelled before the scheduler ran its task
TryCancel(f) ==
  /\ tTick[f] = "scheduled"
  /\ tTick' = [tTick EXCEPT ![f] = "cancelled"]
  /\ UNCHANGED <<thunk, counter, thunkRuns, thunkRes, tExits, escaped>>
  /\ UNCHANGED notTry

TryNext ==
  \/ \E f \in TryForks : TryTick(f)
  \/ \E f \in TryForks : TryCancel(f)

\* C23: running Try(thunk) executes the thunk exactly once and completes the
\* fiber exactly once: with the thunk's return value as success or, if the
\* thunk throws, as a failure carrying the thrown error; the exception never
\* escapes to the host or the scheduler.
C23_TryRunsThunkOnce ==
  /\ ~escaped
  /\ \A f \in TryForks :
       IF tTick[f] = "ran"
         THEN thunkRuns[f] = 1 /\ tExits[f] = <<thunkRes[f]>>
         ELSE thunkRuns[f] = 0 /\ tExits[f] = <<>>
  /\ \A f \in TryForks :
       tTick[f] = "ran" => thunkRes[f].tag = (IF thunk.kind = "throw" THEN "Left" ELSE "Right")

C23_Witness ==
  /\ thunk.kind = "throw"
  /\ tTick[1] = "ran"
  /\ thunkRuns[1] = 1
  /\ tExits[1] = <<Left(thunk.val)>>
  /\ ~escaped

\* ------------------------------------------------- provide, access and fork
IFibers == {"parent", "child"}

\* the environment of the root fiber, and the ones provide installs
RootEnv == 1
Envs == {2, 3}

I(op, arg) == [op |-> op, arg |-> arg]

\* the fork getter: QIO.env().zipWithM(QIO.runtime(), (ENV, RTM) =>
\* QIO.fork(this.provide(ENV), RTM)); forkWith: QIO.env().chain(ENV =>
\* QIO.fork(this.provide(ENV), runtime)). The child evaluates body.provide(ENV)
forkChildNoProvide(body, ENV) == body
forkChild(body, ENV) == <<I("provide", ENV)>> \o body \o <<I("restore", 0)>>

\* a failure unwinds the frames of the fiber up to the nearest Recover frame;
\* a WithEnv frame met on the way restores its environment. Instructions of
\* a provide that was not entered (depth > 0) are not frames and are dropped
RECURSIVE unwindNoRestore(_, _, _, _)
unwindNoRestore(code, env, envStack, depth) ==
  IF code = <<>> THEN [code |-> <<>>, env |-> env, envStack |-> envStack, st |-> "failed"]
  ELSE IF Head(code).op = "recover" /\ depth = 0
    THEN [code |-> Tail(code), env |-> env, envStack |-> envStack, st |-> "running"]
  ELSE unwindNoRestore(Tail(code), env, envStack, depth)

RECURSIVE unwind(_, _, _, _)
unwind(code, env, envStack, depth) ==
  IF code = <<>> THEN [code |-> <<>>, env |-> env, envStack |-> envStack, st |-> "failed"]
  ELSE IF Head(code).op = "recover" /\ depth = 0
    THEN [code |-> Tail(code), env |-> env, envStack |-> envStack, st |-> "running"]
  ELSE IF Head(code).op = "provide"
    THEN unwind(Tail(code), env, envStack, depth + 1)
  ELSE IF Head(code).op = "restore"
    THEN IF depth > 0 THEN unwind(Tail(code), env, envStack, depth - 1)
         ELSE unwind(Tail(code), Head(envStack), Tail(envStack), 0)
  ELSE unwind(Tail(code), env, envStack, depth)

\* the effect of the parent: an Access, then body.provide(r), then an Access,
\* where body is an Access, optionally a fork, optionally a nested provide
\* around an Access, and then QIO.of or QIO.reject; optionally a Catch whose
\* handler is an Access, inside or outside the provide, and optionally a fork
\* before the provide. Each Access carries the environment of its scope.
Program(g) ==
  LET r2 == CHOOSE e \in Envs : e # g.r
      catch(e) == <<I("recover", 1), I("access", e)>>
      body == <<I("access", g.r)>>
                \o (IF g.forkAt = "inside" THEN <<I("fork", g.r)>> ELSE <<>>)
                \o (IF g.nested
                      THEN <<I("provide", r2), I("access", r2), I("restore", 0), I("access", g.r)>>
                      ELSE <<>>)
                \o (IF g.fails THEN <<I("reject", 0)>> ELSE <<>>)
                \o (IF g.catchAt = "inside" THEN catch(g.r) ELSE <<>>)
  IN <<I("access", RootEnv)>>
       \o (IF g.forkAt = "before" THEN <<I("fork", RootEnv)>> ELSE <<>>)
       \o <<I("provide", g.r)>> \o body \o <<I("restore", 0)>>
       \o (IF g.catchAt = "outside" THEN catch(RootEnv) ELSE <<>>)
       \o <<I("access", RootEnv)>>

Shapes ==
  [r : Envs, nested : BOOLEAN, fails : BOOLEAN,
   catchAt : {"none", "inside", "outside"}, forkAt : {"none", "before", "inside"}]

EnvVarsInit ==
  /\ prog \in Shapes
  /\ iCode = [f \in IFibers |-> IF f = "parent" THEN Program(prog) ELSE <<>>]
  /\ iEnv = [f \in IFibers |-> IF f = "parent" THEN RootEnv ELSE Undefined]
  /\ iEnvStack = [f \in IFibers |-> <<>>]
  /\ iSeen = [f \in IFibers |-> <<>>]
  /\ iSt = [f \in IFibers |-> IF f = "parent" THEN "running" ELSE "unborn"]

EnvIdle ==
  /\ prog = [r |-> 2, nested |-> FALSE, fails |-> FALSE, catchAt |-> "none", forkAt |-> "none"]
  /\ iCode = [f \in IFibers |-> <<>>]
  /\ iEnv = [f \in IFibers |-> Undefined]
  /\ iEnvStack = [f \in IFibers |-> <<>>]
  /\ iSeen = [f \in IFibers |-> <<>>]
  /\ iSt = [f \in IFibers |-> "ok"]

\* fiber f goes on with `code`; with nothing left it completes
Continue(f, code) ==
  /\ iCode' = [iCode EXCEPT ![f] = code]
  /\ iSt' = [iSt EXCEPT ![f] = IF code = <<>> THEN "ok" ELSE iSt[f]]

Ready(f, op) == iSt[f] = "running" /\ iCode[f] # <<>> /\ Head(iCode[f]).op = op

\* Access(cb): succeeds with cb(current environment)
EnvAccess(f) ==
  /\ Ready(f, "access")
  /\ iSeen' = [iSeen EXCEPT ![f] = Append(iSeen[f], <<Head(iCode[f]).arg, iEnv[f]>>)]
  /\ Continue(f, Tail(iCode[f]))
  /\ UNCHANGED <<prog, iEnv, iEnvStack>>
  /\ UNCHANGED notEnv

\* Provide(eff, r): a WithEnv frame keeps the current environment, r is installed
EnvProvide(f) ==
  /\ Ready(f, "provide")
  /\ iEnvStack' = [iEnvStack EXCEPT ![f] = <<iEnv[f]>> \o iEnvStack[f]]
  /\ iEnv' = [iEnv EXCEPT ![f] = Head(iCode[f]).arg]
  /\ Continue(f, Tail(iCode[f]))
  /\ UNCHANGED <<prog, iSeen>>
  /\ UNCHANGED notEnv

\* the WithEnv frame is popped on success: the previous environment is back
EnvRestore(f) ==
  /\ Ready(f, "restore")
  /\ iEnv' = [iEnv EXCEPT ![f] = Head(iEnvStack[f])]
  /\ iEnvStack' = [iEnvStack EXCEPT ![f] = Tail(iEnvStack[f])]
  /\ Continue(f, Tail(iCode[f]))
  /\ UNCHANGED <<prog, iSeen>>
  /\ UNCHANGED notEnv

\* QIO.reject: the fiber unwinds to the nearest handler, or fails
EnvReject(f) ==
  /\ Ready(f, "reject")
  /\ LET u == unwind(Tail(iCode[f]), iEnv[f], iEnvStack[f], 0) IN
       /\ iCode' = [iCode EXCEPT ![f] = u.code]
       /\ iEnv' = [iEnv EXCEPT ![f] = u.env]
       /\ iEnvStack' = [iEnvStack EXCEPT ![f] = u.envStack]
       /\ iSt' = [iSt EXCEPT ![f] = u.st]
  /\ UNCHANGED <<prog, iSeen>>
  /\ UNCHANGED notEnv

\* a Recover frame is popped on success: its handler is dropped
EnvRecover(f) ==
  /\ Ready(f, "recover")
  /\ Continue(f, SubSeq(iCode[f], 2 + Head(iCode[f]).arg, Len(iCode[f])))
  /\ UNCHANGED <<prog, iEnv, iEnvStack, iSeen>>
  /\ UNCHANGED notEnv

\* the parent forks a child whose effect is two Accesses: the child fiber
\* starts with no environment of its own and evaluates body.provide(ENV)
EnvFork ==
  /\ Ready("parent", "fork")
  /\ iCode' = [iCode EXCEPT !["parent"] = Tail(iCode["parent"]),
                            !["child"] = forkChild(<<I("access", Head(iCode["parent"]).arg),
                                                     I("access", Head(iCode["parent"]).arg)>>,
                                                   iEnv["parent"])]
  /\ iSt' = [iSt EXCEPT !["child"] = "running"]
  /\ UNCHANGED <<prog, iEnv, iEnvStack, iSeen>>
  /\ UNCHANGED notEnv

EnvNext ==
  \/ \E f \in IFibers : EnvAccess(f)
  \/ \E f \in IFibers : EnvProvide(f)
  \/ \E f \in IFibers : EnvRestore(f)
  \/ \E f \in IFibers : EnvReject(f)
  \/ \E f \in IFibers : EnvRecover(f)
  \/ EnvFork

\* every Access fiber f made observed the environment of its scope
SeesScope(f) == \A k \in 1..Len(iSeen[f]) : iSeen[f][k][2] = iSeen[f][k][1]

\* C24: inside eff.provide(r) every Access sees r, and after eff.provide(r)
\* exits, by success or by failure, every Access in the continuation (a Catch
\* handler outside the provide included) sees the environment that was
\* active before the provide.
C24_ProvideScopesEnv ==
  /\ SeesScope("parent")
  /\ iSt["parent"] # "running" => iEnv["parent"] = RootEnv /\ iEnvStack["parent"] = <<>>

C24_Witness ==
  /\ prog.fails /\ prog.nested /\ prog.catchAt = "outside"
  /\ iSt["parent"] = "ok"
  /\ iSeen["parent"] = <<<<RootEnv, RootEnv>>, <<prog.r, prog.r>>,
                         <<5 - prog.r, 5 - prog.r>>, <<prog.r, prog.r>>,
                         <<RootEnv, RootEnv>>, <<RootEnv, RootEnv>>>>

\* C26: a fiber created by eff.fork (or forkWith) evaluates eff with the
\* environment that was current in the parent at the moment of the fork;
\* environments the parent installs or leaves afterwards do not change what
\* the child's Access observes.
C26_ForkInheritsEnv == SeesScope("child")

C26_Witness ==
  /\ prog.forkAt = "inside"
  /\ iSt["parent"] = "ok"
  /\ iEnv["parent"] = RootEnv
  /\ iSt["child"] = "ok"
  /\ iSeen["child"] = <<<<prog.r, prog.r>>, <<prog.r, prog.r>>>>
  /\ Len(iSeen["parent"]) > 2

\* --------------------------------------------------------- Specifications
\* a Managed under use
ManagedInit == ManagedVarsInit /\ QueueIdle /\ TakeNIdle /\ OnceIdle /\ RaceIdle /\ ParIdle /\ ComputationIdle /\ TryIdle /\ EnvIdle

SpecManaged == ManagedInit /\ [][ManagedNext]_vars

\* a queue in use by single offers and takes
QueueInit == QueueVarsInit /\ ManagedIdle /\ TakeNIdle /\ OnceIdle /\ RaceIdle /\ ParIdle /\ ComputationIdle /\ TryIdle /\ EnvIdle

SpecQueue == QueueInit /\ [][QueueNext]_vars

\* the scheduler runs every callback it was handed: a set Await resumes its take.
FairSpecQueue == SpecQueue /\ \A id \in TakeIds : WF_vars(Resume(id))

\* a queue in use by offers and one takeN(n)
TakeNInit == QueueVarsInit /\ TakeNVarsInit /\ ManagedIdle /\ OnceIdle /\ RaceIdle /\ ParIdle /\ ComputationIdle /\ TryIdle /\ EnvIdle

SpecTakeN == TakeNInit /\ [][TakeNNext]_vars

\* one eff.once, its memoized effect run by several fibers
OnceInit == OnceVarsInit /\ QueueIdle /\ ManagedIdle /\ TakeNIdle /\ RaceIdle /\ ParIdle /\ ComputationIdle /\ TryIdle /\ EnvIdle

SpecOnce == OnceInit /\ [][OnceNext]_vars

\* one a.race(b) or a.zipWithPar(b, c) run on a scheduler with a clock
RaceInit == RaceVarsInit /\ QueueIdle /\ ManagedIdle /\ TakeNIdle /\ OnceIdle /\ ParIdle /\ ComputationIdle /\ TryIdle /\ EnvIdle

SpecRace == RaceInit /\ [][RaceNext]_vars

\* one QIO.parN(N, ios) run
ParInit == ParVarsInit /\ QueueIdle /\ ManagedIdle /\ TakeNIdle /\ OnceIdle /\ RaceIdle /\ ComputationIdle /\ TryIdle /\ EnvIdle

SpecPar == ParInit /\ [][ParNNext]_vars

\* one QIO.seq(ios) run
SeqInit == ParVarsInit /\ pnN = 1 /\ QueueIdle /\ ManagedIdle /\ TakeNIdle /\ OnceIdle /\ RaceIdle /\ ComputationIdle /\ TryIdle /\ EnvIdle

SpecSeq == SeqInit /\ [][SeqNext]_vars

\* one fork of a Computation
ComputationInit ==
  ComputationVarsInit /\ QueueIdle /\ ManagedIdle /\ TakeNIdle /\ OnceIdle /\ RaceIdle /\ ParIdle /\ TryIdle /\ EnvIdle

SpecComputation == ComputationInit /\ [][ComputationNext]_vars

\* forks of one Try(thunk)
TryInit ==
  TryVarsInit /\ QueueIdle /\ ManagedIdle /\ TakeNIdle /\ OnceIdle /\ RaceIdle /\ ParIdle /\ ComputationIdle /\ EnvIdle

SpecTry == TryInit /\ [][TryNext]_vars

\* one fiber evaluating provide / access / catch, and the child it forks
EnvInit ==
  EnvVarsInit /\ QueueIdle /\ ManagedIdle /\ TakeNIdle /\ OnceIdle /\ RaceIdle /\ ParIdle /\ ComputationIdle /\ TryIdle

SpecEnv == EnvInit /\ [][EnvNext]_vars

====
